---- MODULE Spec2Model ----
(***************************************************************************)
(* Model of the awaaz real-time transcription service:                     *)
(*   - Server.handle_websocket / Server.handle_audio   (src/src/server.py) *)
(*   - SilenceAtEndOfChunk.process_audio / process_audio_async             *)
(*                     (src/src/buffering_strategy/buffering_strategies.py)*)
(*   - ASRModelPool                             (src/src/asr/model_pool.py)*)
(*   - validate_api_key                                 (src/core/auth.py) *)
(* One asyncio event loop runs every coroutine, so each action below is    *)
(* the code between two suspension points (await) of one coroutine.        *)
(***************************************************************************)
EXTENDS Integers, Sequences, FiniteSets, TLC

(* ------------------------------ bounds --------------------------------- *)
NumConns == 2          \* websocket connections accepted during a run
MaxFrames == 2         \* inbound frames handled during a run
MaxFrameLen == 3       \* bytes in one binary frame
MaxVadEnd == 2         \* largest end (seconds) of the last VAD segment
pool_size == 1         \* capacity of the pool the server is started with
CallerPoolSize == 2    \* capacity of the pool in SpecPool
sampling_rate == 1     \* samples per second (scaled down from main.py:104)
NumCallers == 3        \* callers of the pool API in SpecPool
MaxMemory == 20        \* largest free GPU memory in SpecStartup
MaxFootprint == 5      \* largest per-engine footprint in SpecStartup

(* --------------------------- configuration ----------------------------- *)
samples_width == 2
chunk_length_seconds == 1
chunk_offset_seconds == 1

Conns == 1..NumConns
Callers == 1..NumCallers
NoHandle == 0

RangeOf(s) == {s[i] : i \in 1..Len(s)}
RemoveAt(s, i) == [j \in 1..(Len(s) - 1) |-> IF j < i THEN s[j] ELSE s[j + 1]]

VARIABLES
  error_if_not_realtime, \* SilenceAtEndOfChunk.error_if_not_realtime
  running,               \* the process is alive (FALSE after exit())
  path,                  \* websocket.path: the query of each connection
  connState,             \* "new" | "active" | "closed"
  closeCode,             \* code passed to websocket.close (0: not called)
  closeReason,           \* reason passed to websocket.close
  connected_clients,     \* Server.connected_clients (keys)
  received,              \* frames returned by websocket.recv()
  config,                \* Client.config
  nextByte,              \* identity of the next ingested byte
  buffer,                \* Client.buffer (live_buffer)
  scratch_buffer,        \* Client.scratch_buffer
  file_counter,          \* Client.file_counter (segment counter)
  processing_flag,       \* SilenceAtEndOfChunk.processing_flag
  tasks,                 \* process_audio_async tasks in flight, per client
  lastFrame,             \* kind of the frame recv() returned last
  lastCheck,             \* what the threshold check run for that frame did
  last_vad,              \* the VAD result handed to the latest pass
  outcome,               \* "running", or how the latest pass ended
  sent,                  \* frames delivered by websocket.send
  maxsize,               \* maxsize of ASRModelPool.pool
  pool,                  \* ASRModelPool.pool (asyncio.Queue contents)
  instance,              \* ASRModelPool._instance
  cpc,                   \* pool API callers: position
  cmode,                 \* pool API callers: "direct" | "scoped"
  cacquired,             \* pool API callers: handle obtained last
  creturned,             \* pool API callers: handle last given back
  queueFull,             \* a put_nowait raised QueueFull
  getters,               \* asyncio.Queue._getters: callers suspended in get
  ready,                 \* event loop: callers whose next step is scheduled
  frame_budget,          \* frames the clients deliver during the run
  mem_info,              \* pynvml: free bytes of GPU 0, or NvmlError
  model_memory_bytes,    \* FasterWhisperASR.get_model_memory_bytes()
  startup                \* main(): "main" | "failed" | "serving"

serverVars == <<error_if_not_realtime, running, path, connState, closeCode,
                closeReason, connected_clients, received, config, nextByte,
                buffer, scratch_buffer, file_counter, processing_flag, tasks,
                lastFrame, lastCheck, last_vad, outcome, sent>>
poolVars == <<maxsize, pool, queueFull>>
callerVars == <<instance, cpc, cmode, cacquired, creturned, getters, ready>>
startupVars == <<frame_budget, mem_info, model_memory_bytes, startup>>
vars == <<serverVars, poolVars, callerVars, startupVars>>

(* ------------------------- core/auth.py, config ------------------------ *)
KeyParam == "AWAAZ_API_KEY"
TARA_API_KEY == "good"
API_KEYS == <<TARA_API_KEY>>

\* A query string is a sequence of <<name, value>> pairs.
Queries ==
  { <<>>,
    << <<KeyParam, "">> >>,
    << <<KeyParam, "good">> >>,
    << <<KeyParam, "bad">> >>,
    << <<"other", "good">> >>,
    << <<KeyParam, "bad">>, <<KeyParam, "good">> >> }

\* urllib.parse.parse_qs(query).get(name, None): the values given for name,
\* in order, blank values dropped; None (here <<>>) when there is none.
IsValueOf(name, p) == p[1] = name /\ p[2] # ""
ValuesOf(q, name) ==
  LET RECURSIVE Vals(_)
      Vals(s) == IF s = <<>> THEN <<>>
                 ELSE IF IsValueOf(name, Head(s))
                      THEN <<Head(s)[2]>> \o Vals(Tail(s))
                      ELSE Vals(Tail(s))
  IN Vals(q)

\* server.py:84-87; "" stands for None
ApiKeyOf(q) ==
  LET api_keys == ValuesOf(q, KeyParam)
  IN IF Len(api_keys) > 0 THEN api_keys[1] ELSE ""

validateAnyKey(api_key) == TRUE

validate_api_key(api_key) == api_key \in RangeOf(API_KEYS)

(* ------- pool sizing (model_pool.py:10-34) and main (main.py:94-96) ---- *)
\* mem_info when a pynvml call raises
NvmlError == -1

\* get_available_gpu_memory_bytes (10-20): mem_info.free, 0 on an exception
get_available_gpu_memory_bytes(info) == IF info = NvmlError THEN 0 ELSE info

\* math.floor(a / b) for b # 0
floor_div(a, b) == IF b > 0 THEN a \div b ELSE (-a) \div (-b)

\* the 0.8 of line 29 left out
computeWithoutReserve(info, footprint) ==
  LET available_memory == get_available_gpu_memory_bytes(info)
  IN IF footprint = 0
     THEN [raised |-> TRUE, size |-> 0]
     ELSE LET size == floor_div(available_memory, footprint)
          IN [raised |-> FALSE, size |-> IF 1 > size THEN 1 ELSE size]

\* compute_model_pool_size (23-34). available_memory *= 0.8 (29) is taken
\* as the rational 8/10, so that floor(available_memory / model_memory_bytes)
\* (31) is floor(8 * available_memory / (10 * model_memory_bytes)); the
\* division raises ZeroDivisionError for a footprint of 0; 34 is max(1, .).
compute_model_pool_size(info, footprint) ==
  LET available_memory == get_available_gpu_memory_bytes(info)
  IN IF footprint = 0
     THEN [raised |-> TRUE, size |-> 0]
     ELSE LET size == floor_div(8 * available_memory, 10 * footprint)
          IN [raised |-> FALSE, size |-> IF 1 > size THEN 1 ELSE size]

\* The least free memory for which engines of footprint 1 give a pool of
\* the given size.
MemoryFor(size) == (5 * size + 3) \div 4

(* ------------------------------- Init ---------------------------------- *)
\* ASRModelPool.__init__ (38-42)
InitPool(size) ==
  /\ maxsize = size
  /\ pool = [i \in 1..size |-> i]
  /\ instance = NoHandle
  /\ queueFull = FALSE

\* Server.__init__ (34-53): no client yet. The connections of arriving are
\* still to come; the others have come and gone without a frame.
InitSessions(arriving) ==
  /\ running = TRUE
  /\ path = [c \in Conns |-> <<>>]
  /\ connState = [c \in Conns |-> IF c \in arriving THEN "new" ELSE "closed"]
  /\ closeCode = [c \in Conns |-> 0]
  /\ closeReason = [c \in Conns |-> ""]
  /\ connected_clients = {}
  /\ received = [c \in Conns |-> 0]
  /\ config = [c \in Conns |-> "default"]
  /\ nextByte = [c \in Conns |-> 1]
  /\ buffer = [c \in Conns |-> <<>>]
  /\ scratch_buffer = [c \in Conns |-> <<>>]
  /\ file_counter = [c \in Conns |-> 0]
  /\ processing_flag = [c \in Conns |-> FALSE]
  /\ tasks = [c \in Conns |-> <<>>]
  /\ lastFrame = [c \in Conns |-> "none"]
  /\ lastCheck = [c \in Conns |-> "none"]
  /\ last_vad = [c \in Conns |-> <<>>]
  /\ outcome = [c \in Conns |-> "none"]
  /\ sent = [c \in Conns |-> <<>>]

InitServer == InitSessions(Conns)

InitCallers ==
  /\ cpc = [k \in Callers |-> "idle"]
  /\ cacquired = [k \in Callers |-> NoHandle]
  /\ creturned = [k \in Callers |-> NoHandle]
  /\ getters = <<>>
  /\ ready = <<>>

\* main() has built a pool of the given size (main.py:94-96) and serves.
InitServing(size, frames) ==
  /\ model_memory_bytes = 1
  /\ mem_info = MemoryFor(size)
  /\ InitPool(compute_model_pool_size(mem_info, model_memory_bytes).size)
  /\ startup = "serving"
  /\ frame_budget = frames

Init ==
  /\ error_if_not_realtime \in BOOLEAN
  /\ InitServer
  /\ InitServing(pool_size, MaxFrames)
  /\ InitCallers
  /\ cmode = [k \in Callers |-> "direct"]

(* ------------------- Server.handle_websocket (75-110) ------------------ *)
\* From accept to the first suspension: the close of a rejected connection,
\* or the first recv() of handle_audio.
handle_websocket(c, q) ==
  /\ running
  /\ connState[c] = "new"
  /\ path' = [path EXCEPT ![c] = q]
  /\ LET api_key == ApiKeyOf(q)
     IN IF api_key = ""
        THEN /\ closeCode' = [closeCode EXCEPT ![c] = 4001]
             /\ closeReason' = [closeReason EXCEPT ![c] = "Missing API Key"]
             /\ connState' = [connState EXCEPT ![c] = "closed"]
             /\ UNCHANGED connected_clients
        ELSE IF ~validate_api_key(api_key)
        THEN /\ closeCode' = [closeCode EXCEPT ![c] = 4001]
             /\ closeReason' = [closeReason EXCEPT ![c] = "Invalid API Key"]
             /\ connState' = [connState EXCEPT ![c] = "closed"]
             /\ UNCHANGED connected_clients
        ELSE /\ connected_clients' = connected_clients \cup {c}
             /\ connState' = [connState EXCEPT ![c] = "active"]
             /\ UNCHANGED <<closeCode, closeReason>>
  /\ UNCHANGED <<error_if_not_realtime, running, received, config, nextByte,
                 buffer, scratch_buffer, file_counter, processing_flag, tasks,
                 lastFrame, lastCheck, last_vad, outcome, sent, poolVars,
                 callerVars, startupVars>>

(* --------------------------- Client (client.py) ------------------------ *)
\* append_audio_data: the frame's bytes go to the end of buffer.
append_audio_data(buf, data) == buf \o data

\* update_config: the data of the control message is merged into config.
ConfigData == {"updated"}
update_config(cfg, data) == data

\* increment_file_counter
increment_file_counter(n) == n + 1

(* --------- SilenceAtEndOfChunk.process_audio (62-101), as a function --- *)
chunk_length_in_bytes == chunk_length_seconds * sampling_rate * samples_width

\* 95-101: the chunk moves to scratch_buffer and a task is created
StartPass(c, buf) ==
  [buffer |-> <<>>, scratch_buffer |-> scratch_buffer[c] \o buf,
   processing_flag |-> TRUE, create_task |-> TRUE,
   exit |-> FALSE, check |-> "started"]
\* 80 is false: nothing happens
BelowThreshold(c, buf) ==
  [buffer |-> buf, scratch_buffer |-> scratch_buffer[c],
   processing_flag |-> processing_flag[c], create_task |-> FALSE,
   exit |-> FALSE, check |-> "below"]
\* buffer.clear() (92) left out
OverloadKeepsBuffer(c, buf) ==
  IF error_if_not_realtime
  THEN [buffer |-> buf, scratch_buffer |-> scratch_buffer[c],
        processing_flag |-> TRUE, create_task |-> FALSE,
        exit |-> TRUE, check |-> "fatal"]
  ELSE [buffer |-> buf, scratch_buffer |-> scratch_buffer[c],
        processing_flag |-> TRUE, create_task |-> FALSE,
        exit |-> FALSE, check |-> "dropped"]

\* exit() (82-86) left out: overload is always a drop
OverloadDropsOnly(c, buf) ==
  [buffer |-> <<>>, scratch_buffer |-> scratch_buffer[c],
   processing_flag |-> TRUE, create_task |-> FALSE,
   exit |-> FALSE, check |-> "dropped"]

\* 81-93: exit() under error_if_not_realtime, else the buffer is dropped
Overload(c, buf) ==
  IF error_if_not_realtime
  THEN [buffer |-> buf, scratch_buffer |-> scratch_buffer[c],
        processing_flag |-> TRUE, create_task |-> FALSE,
        exit |-> TRUE, check |-> "fatal"]
  ELSE [buffer |-> <<>>, scratch_buffer |-> scratch_buffer[c],
        processing_flag |-> TRUE, create_task |-> FALSE,
        exit |-> FALSE, check |-> "dropped"]

\* the check of processing_flag (81) left out
processAudioNoFlag(c, buf) ==
  IF Len(buf) > chunk_length_in_bytes
  THEN StartPass(c, buf)
  ELSE BelowThreshold(c, buf)

\* the dropped chunk (92) is appended to scratch_buffer
processAudioDropAppends(c, buf) ==
  IF Len(buf) > chunk_length_in_bytes
  THEN IF processing_flag[c]
       THEN [Overload(c, buf) EXCEPT
               !.scratch_buffer = scratch_buffer[c] \o buf]
       ELSE StartPass(c, buf)
  ELSE BelowThreshold(c, buf)

\* buffer.clear() (96) left out
processAudioNoClear(c, buf) ==
  IF Len(buf) > chunk_length_in_bytes
  THEN IF processing_flag[c]
       THEN Overload(c, buf)
       ELSE [StartPass(c, buf) EXCEPT !.buffer = buf]
  ELSE BelowThreshold(c, buf)

\* The effect of the threshold check on a client whose buffer holds buf:
\* the new buffer, scratch_buffer and processing_flag, whether a
\* process_audio_async task is created, and whether exit() is called.
process_audio(c, buf) ==
  IF Len(buf) > chunk_length_in_bytes
  THEN IF processing_flag[c]
       THEN Overload(c, buf)
       ELSE StartPass(c, buf)
  ELSE BelowThreshold(c, buf)

\* A task created for process_audio_async, about to await detect_activity.
NewTask ==
  [pc |-> "vad", model_instance |-> NoHandle, audio |-> <<>>, text |-> ""]

\* Client.process_audio -> SilenceAtEndOfChunk.process_audio, applied.
\* exit() raises SystemExit through handle_audio: the finally clause of
\* handle_websocket runs and the event loop stops.
ClientProcessAudio(c, buf) ==
  LET r == process_audio(c, buf)
  IN /\ buffer' = [buffer EXCEPT ![c] = r.buffer]
     /\ scratch_buffer' = [scratch_buffer EXCEPT ![c] = r.scratch_buffer]
     /\ processing_flag' = [processing_flag EXCEPT ![c] = r.processing_flag]
     /\ tasks' = IF r.create_task
                 THEN [tasks EXCEPT ![c] = Append(@, NewTask)]
                 ELSE tasks
     /\ lastCheck' = [lastCheck EXCEPT ![c] = r.check]
     /\ outcome' = IF r.create_task
                   THEN [outcome EXCEPT ![c] = "running"]
                   ELSE outcome
     /\ last_vad' = IF r.create_task
                    THEN [last_vad EXCEPT ![c] = <<>>]
                    ELSE last_vad
     /\ running' = ~r.exit
     /\ connected_clients' = IF r.exit THEN connected_clients \ {c}
                             ELSE connected_clients
     /\ connState' = IF r.exit THEN [connState EXCEPT ![c] = "closed"]
                     ELSE connState

(* --------------------- Server.handle_audio (55-73) --------------------- *)
RECURSIVE SumTo(_, _)
SumTo(f, n) == IF n = 0 THEN 0 ELSE f[n] + SumTo(f, n - 1)
TotalReceived == SumTo(received, NumConns)

\* recv() is reached only once the Session's pass is over
ReceivingAfterPass(c) ==
  /\ running
  /\ connState[c] = "active"
  /\ tasks[c] = <<>>
  /\ TotalReceived < frame_budget

\* handle_audio is suspended in recv() (57) whenever the connection is
\* open: process_audio (62-101) is a plain function that creates the task
\* (99-101) and returns.
Receiving(c) ==
  /\ running
  /\ connState[c] = "active"
  /\ TotalReceived < frame_budget

\* recv() returns bytes: 59-60, then 71-73
RecvBytes(c, n) ==
  /\ Receiving(c)
  /\ received' = [received EXCEPT ![c] = @ + 1]
  /\ nextByte' = [nextByte EXCEPT ![c] = @ + n]
  /\ lastFrame' = [lastFrame EXCEPT ![c] = "bytes"]
  /\ LET data == [i \in 1..n |-> nextByte[c] + i - 1]
     IN ClientProcessAudio(c, append_audio_data(buffer[c], data))
  /\ UNCHANGED <<error_if_not_realtime, path, closeCode, closeReason, config,
                 file_counter, sent, poolVars, callerVars, startupVars>>

\* recv() returns a str holding {"type": "config", "data": ...}: 61-66,
\* where `continue` goes back to recv() without the call of 71-73
RecvConfig(c, data) ==
  /\ Receiving(c)
  /\ received' = [received EXCEPT ![c] = @ + 1]
  /\ config' = [config EXCEPT ![c] = update_config(@, data)]
  /\ lastFrame' = [lastFrame EXCEPT ![c] = "config"]
  /\ lastCheck' = [lastCheck EXCEPT ![c] = "none"]
  /\ UNCHANGED <<error_if_not_realtime, running, path, connState, closeCode,
                 closeReason, connected_clients, nextByte, buffer,
                 scratch_buffer, file_counter, processing_flag, tasks,
                 last_vad, outcome, sent, poolVars, callerVars, startupVars>>

\* the text frame is followed by `continue`, as a config frame is
RecvOtherTextSkipsCheck(c) ==
  /\ Receiving(c)
  /\ received' = [received EXCEPT ![c] = @ + 1]
  /\ lastFrame' = [lastFrame EXCEPT ![c] = "text"]
  /\ lastCheck' = [lastCheck EXCEPT ![c] = "none"]
  /\ UNCHANGED <<error_if_not_realtime, running, path, connState, closeCode,
                 closeReason, connected_clients, config, nextByte, buffer,
                 scratch_buffer, file_counter, processing_flag, tasks,
                 last_vad, outcome, sent, poolVars, callerVars, startupVars>>

\* recv() returns a str holding a JSON object of another type: 61-63, 71-73
RecvOtherText(c) ==
  /\ Receiving(c)
  /\ received' = [received EXCEPT ![c] = @ + 1]
  /\ lastFrame' = [lastFrame EXCEPT ![c] = "text"]
  /\ ClientProcessAudio(c, buffer[c])
  /\ UNCHANGED <<error_if_not_realtime, path, closeCode, closeReason, config,
                 nextByte, file_counter, sent, poolVars, callerVars,
                 startupVars>>

\* recv() returns a str on which json.loads, config.get or config["data"]
\* raises (JSONDecodeError, AttributeError, KeyError): the exception leaves
\* handle_audio, is not a ConnectionClosed, and the finally clause
\* (server.py:109-110) removes the client.
MalformedKinds == {"not_json", "not_object", "config_without_data"}
RecvMalformed(c, kind) ==
  /\ Receiving(c)
  /\ received' = [received EXCEPT ![c] = @ + 1]
  /\ connected_clients' = connected_clients \ {c}
  /\ connState' = [connState EXCEPT ![c] = "closed"]
  /\ lastFrame' = [lastFrame EXCEPT ![c] = kind]
  /\ lastCheck' = [lastCheck EXCEPT ![c] = "none"]
  /\ UNCHANGED <<error_if_not_realtime, running, path, closeCode,
                 closeReason, config, nextByte, buffer, scratch_buffer,
                 file_counter, processing_flag, tasks, last_vad,
                 outcome, sent, poolVars, callerVars, startupVars>>

\* the del of 109-110 left out
DisconnectKeepsSession(c) ==
  /\ running
  /\ connState[c] = "active"
  /\ connState' = [connState EXCEPT ![c] = "closed"]
  /\ UNCHANGED <<error_if_not_realtime, running, path, closeCode,
                 closeReason, connected_clients, received, config, nextByte,
                 buffer, scratch_buffer, file_counter, processing_flag, tasks,
                 lastFrame, lastCheck, last_vad, outcome, sent, poolVars,
                 callerVars, startupVars>>

\* recv() raises ConnectionClosed: 107-110
Disconnect(c) ==
  /\ running
  /\ connState[c] = "active"
  /\ connected_clients' = connected_clients \ {c}
  /\ connState' = [connState EXCEPT ![c] = "closed"]
  /\ UNCHANGED <<error_if_not_realtime, running, path, closeCode,
                 closeReason, received, config, nextByte, buffer,
                 scratch_buffer, file_counter, processing_flag, tasks,
                 lastFrame, lastCheck, last_vad, outcome, sent, poolVars,
                 callerVars, startupVars>>

(* -------------------- ASRModelPool (model_pool.py:37-55) --------------- *)
\* asyncio.Queue.get returns at once when the queue is not empty and
\* suspends the caller otherwise.
get_ready(q) == Len(q) > 0

\* a queue that counts the item being put against maxsize
put_nowaitOneShort(q, h) ==
  IF Len(q) + 1 >= maxsize
  THEN [pool |-> q, full |-> TRUE]
  ELSE [pool |-> Append(q, h), full |-> FALSE]

\* asyncio.Queue.put_nowait: QueueFull when the queue already holds maxsize
\* items.
put_nowait(q, h) ==
  IF Len(q) >= maxsize
  THEN [pool |-> q, full |-> TRUE]
  ELSE [pool |-> Append(q, h), full |-> FALSE]

\* ASRModelPool.release (47-48), applied to the pool
release(model_instance) ==
  LET r == put_nowait(pool, model_instance)
  IN /\ pool' = r.pool
     /\ queueFull' = (queueFull \/ r.full)
     /\ UNCHANGED maxsize

(* ------- SilenceAtEndOfChunk.process_audio_async (103-190) ------------- *)
\* The VAD result is the sequence of its segments' ends, in seconds.
VadResults == {<<>>} \cup {<<e>> : e \in 0..MaxVadEnd}
Texts == {"", "hello"}

EndsAtOrBeforeCutoff(end, scratch_len) ==
  (end + chunk_offset_seconds) * (sampling_rate * samples_width) <= scratch_len

\* vad_results[-1]["end"] < len(scratch_buffer) / (sampling_rate *
\* samples_width) - chunk_offset_seconds (130-134), with both sides
\* multiplied by the positive sampling_rate * samples_width.
EndsBeforeCutoff(end, scratch_len) ==
  (end + chunk_offset_seconds) * (sampling_rate * samples_width) < scratch_len

TaskAt(c, i, where) ==
  /\ running
  /\ i \in 1..Len(tasks[c])
  /\ tasks[c][i].pc = where

EndTask(c, i, how) ==
  /\ tasks' = [tasks EXCEPT ![c] = RemoveAt(@, i)]
  /\ outcome' = [outcome EXCEPT ![c] = how]

acquireKeep(c, i) ==
  /\ tasks' = [tasks EXCEPT ![c][i].pc = "transcribe",
                            ![c][i].model_instance = Head(pool),
                            ![c][i].audio = scratch_buffer[c]]
  /\ UNCHANGED poolVars

\* acquire() hands over the handle at the head of the queue (44-45, 138),
\* and transcribe (140) is called on the audio scratch_buffer holds then
acquire(c, i) ==
  /\ pool' = Tail(pool)
  /\ UNCHANGED <<maxsize, queueFull>>
  /\ tasks' = [tasks EXCEPT ![c][i].pc = "transcribe",
                            ![c][i].model_instance = Head(pool),
                            ![c][i].audio = scratch_buffer[c]]

SilenceKeepsScratch(c, i) ==
  /\ buffer' = [buffer EXCEPT ![c] = <<>>]
  /\ processing_flag' = [processing_flag EXCEPT ![c] = FALSE]
  /\ EndTask(c, i, "silence")
  /\ UNCHANGED <<poolVars, scratch_buffer>>

\* no speech detected (123-128)
Silence(c, i) ==
  /\ scratch_buffer' = [scratch_buffer EXCEPT ![c] = <<>>]
  /\ buffer' = [buffer EXCEPT ![c] = <<>>]
  /\ processing_flag' = [processing_flag EXCEPT ![c] = FALSE]
  /\ EndTask(c, i, "silence")
  /\ UNCHANGED poolVars

\* detect_activity returns (118-134); on the transcribe branch the pass goes
\* on to acquire (138), which does not suspend when a handle is idle.
VadReturn(c, i, res) ==
  /\ TaskAt(c, i, "vad")
  /\ last_vad' = [last_vad EXCEPT ![c] = res]
  /\ IF Len(res) = 0
     THEN Silence(c, i)
     ELSE IF EndsBeforeCutoff(res[Len(res)], Len(scratch_buffer[c]))
     THEN /\ IF get_ready(pool)
             THEN acquire(c, i)
             ELSE /\ tasks' = [tasks EXCEPT ![c][i].pc = "acquire"]
                  /\ UNCHANGED poolVars
          /\ UNCHANGED <<scratch_buffer, buffer, processing_flag, outcome>>
     ELSE /\ processing_flag' = [processing_flag EXCEPT ![c] = FALSE]
          /\ EndTask(c, i, "rebuffer")
          /\ UNCHANGED <<scratch_buffer, buffer, poolVars>>
  /\ UNCHANGED <<error_if_not_realtime, running, path, connState, closeCode,
                 closeReason, connected_clients, received, config, nextByte,
                 file_counter, lastFrame, lastCheck, sent, callerVars,
                 startupVars>>

\* detect_activity raises (118): the task ends with the exception.
VadRaise(c, i) ==
  /\ TaskAt(c, i, "vad")
  /\ EndTask(c, i, "vad_error")
  /\ UNCHANGED <<error_if_not_realtime, running, path, connState, closeCode,
                 closeReason, connected_clients, received, config, nextByte,
                 buffer, scratch_buffer, file_counter, processing_flag,
                 lastFrame, lastCheck, last_vad, sent, poolVars, callerVars,
                 startupVars>>

\* a pass suspended in acquire() (138) is resumed with a handle
Acquire(c, i) ==
  /\ TaskAt(c, i, "acquire")
  /\ get_ready(pool)
  /\ acquire(c, i)
  /\ UNCHANGED <<error_if_not_realtime, running, path, connState, closeCode,
                 closeReason, connected_clients, received, config, nextByte,
                 buffer, scratch_buffer, file_counter, processing_flag,
                 lastFrame, lastCheck, last_vad, outcome, sent, callerVars,
                 startupVars>>

\* scratch_buffer.clear() (187) left out
FinishTranscribedKeepsScratch(c, i) ==
  /\ file_counter' = [file_counter EXCEPT ![c] = increment_file_counter(@)]
  /\ processing_flag' = [processing_flag EXCEPT ![c] = FALSE]
  /\ EndTask(c, i, "transcribed")
  /\ UNCHANGED scratch_buffer

\* 187-190 after the transcribe branch: clear, count, clear the flag
FinishTranscribed(c, i) ==
  /\ scratch_buffer' = [scratch_buffer EXCEPT ![c] = <<>>]
  /\ file_counter' = [file_counter EXCEPT ![c] = increment_file_counter(@)]
  /\ processing_flag' = [processing_flag EXCEPT ![c] = FALSE]
  /\ EndTask(c, i, "transcribed")

\* transcribe returns (140-142): release in the finally clause, then either
\* suspend in websocket.send (155) or finish the pass.
TranscribeReturn(c, i, text) ==
  /\ TaskAt(c, i, "transcribe")
  /\ release(tasks[c][i].model_instance)
  /\ IF text # ""
     THEN /\ tasks' = [tasks EXCEPT ![c][i].pc = "send",
                                    ![c][i].model_instance = NoHandle,
                                    ![c][i].text = text]
          /\ UNCHANGED <<scratch_buffer, file_counter, processing_flag,
                         outcome>>
     ELSE FinishTranscribed(c, i)
  /\ UNCHANGED <<error_if_not_realtime, running, path, connState, closeCode,
                 closeReason, connected_clients, received, config, nextByte,
                 buffer, lastFrame, lastCheck, last_vad, sent, callerVars,
                 startupVars>>

TranscribeRaiseLeak(c, i) ==
  /\ TaskAt(c, i, "transcribe")
  /\ EndTask(c, i, "asr_error")
  /\ UNCHANGED <<error_if_not_realtime, running, path, connState, closeCode,
                 closeReason, connected_clients, received, config, nextByte,
                 buffer, scratch_buffer, file_counter, processing_flag,
                 lastFrame, lastCheck, last_vad, sent, poolVars, callerVars,
                 startupVars>>

\* transcribe raises (140-142): release in the finally clause, and the
\* task ends with the exception.
TranscribeRaise(c, i) ==
  /\ TaskAt(c, i, "transcribe")
  /\ release(tasks[c][i].model_instance)
  /\ EndTask(c, i, "asr_error")
  /\ UNCHANGED <<error_if_not_realtime, running, path, connState, closeCode,
                 closeReason, connected_clients, received, config, nextByte,
                 buffer, scratch_buffer, file_counter, processing_flag,
                 lastFrame, lastCheck, last_vad, sent, callerVars,
                 startupVars>>

\* send delivers on a closed connection too
SendReturnDetached(c, i) ==
  /\ TaskAt(c, i, "send")
  /\ sent' = [sent EXCEPT ![c] =
                Append(@, [text |-> tasks[c][i].text,
                           audio |-> tasks[c][i].audio,
                           audio_bytes |-> Len(scratch_buffer[c])])]
  /\ FinishTranscribed(c, i)
  /\ UNCHANGED <<error_if_not_realtime, running, path, connState, closeCode,
                 closeReason, connected_clients, received, config, nextByte,
                 buffer, lastFrame, lastCheck, last_vad, poolVars,
                 callerVars, startupVars>>

\* websocket.send returns (155): the frame is delivered, then 157-190.
SendReturn(c, i) ==
  /\ TaskAt(c, i, "send")
  /\ connState[c] = "active"
  /\ sent' = [sent EXCEPT ![c] =
                Append(@, [text |-> tasks[c][i].text,
                           audio |-> tasks[c][i].audio,
                           audio_bytes |-> Len(scratch_buffer[c])])]
  /\ FinishTranscribed(c, i)
  /\ UNCHANGED <<error_if_not_realtime, running, path, connState, closeCode,
                 closeReason, connected_clients, received, config, nextByte,
                 buffer, lastFrame, lastCheck, last_vad, poolVars, callerVars,
                 startupVars>>

\* websocket.send raises ConnectionClosed (155) on a closed connection:
\* the task ends with the exception.
SendRaise(c, i) ==
  /\ TaskAt(c, i, "send")
  /\ connState[c] = "closed"
  /\ EndTask(c, i, "send_error")
  /\ UNCHANGED <<error_if_not_realtime, running, path, connState, closeCode,
                 closeReason, connected_clients, received, config, nextByte,
                 buffer, scratch_buffer, file_counter, processing_flag,
                 lastFrame, lastCheck, last_vad, sent, poolVars, callerVars,
                 startupVars>>

(* ------------------------------ Next ----------------------------------- *)
\* frames handled during a run of SpecLong
LongFrames == MaxFrames + 2

\* at most one task is created per frame received
TaskIds == 1..LongFrames

Next ==
  \/ \E c \in Conns, q \in Queries : handle_websocket(c, q)
  \/ \E c \in Conns, n \in 1..MaxFrameLen : RecvBytes(c, n)
  \/ \E c \in Conns, data \in ConfigData : RecvConfig(c, data)
  \/ \E c \in Conns : RecvOtherText(c)
  \/ \E c \in Conns, kind \in MalformedKinds : RecvMalformed(c, kind)
  \/ \E c \in Conns : Disconnect(c)
  \/ \E c \in Conns, i \in TaskIds, res \in VadResults : VadReturn(c, i, res)
  \/ \E c \in Conns, i \in TaskIds : VadRaise(c, i)
  \/ \E c \in Conns, i \in TaskIds : Acquire(c, i)
  \/ \E c \in Conns, i \in TaskIds, text \in Texts :
       TranscribeReturn(c, i, text)
  \/ \E c \in Conns, i \in TaskIds : TranscribeRaise(c, i)
  \/ \E c \in Conns, i \in TaskIds : SendReturn(c, i)
  \/ \E c \in Conns, i \in TaskIds : SendRaise(c, i)

Spec == Init /\ [][Next]_vars

(* ------- one Session's longer stream under the drop policy (SpecLong) -- *)
\* One connection arrives and delivers up to LongFrames frames. Its passes
\* come one after the other and find their handle idle, so no pass is ever
\* suspended in acquire() and Acquire is not among the steps.
FirstConn == CHOOSE c \in Conns : \A d \in Conns : c <= d

InitLong ==
  /\ error_if_not_realtime = FALSE
  /\ InitSessions({FirstConn})
  /\ InitServing(pool_size, LongFrames)
  /\ InitCallers
  /\ cmode = [k \in Callers |-> "direct"]

NextLong ==
  \/ \E q \in Queries : handle_websocket(FirstConn, q)
  \/ \E n \in 1..MaxFrameLen : RecvBytes(FirstConn, n)
  \/ \E data \in ConfigData : RecvConfig(FirstConn, data)
  \/ RecvOtherText(FirstConn)
  \/ \E kind \in MalformedKinds : RecvMalformed(FirstConn, kind)
  \/ Disconnect(FirstConn)
  \/ \E i \in TaskIds, res \in VadResults : VadReturn(FirstConn, i, res)
  \/ \E i \in TaskIds : VadRaise(FirstConn, i)
  \/ \E i \in TaskIds, text \in Texts : TranscribeReturn(FirstConn, i, text)
  \/ \E i \in TaskIds : TranscribeRaise(FirstConn, i)
  \/ \E i \in TaskIds : SendReturn(FirstConn, i)
  \/ \E i \in TaskIds : SendRaise(FirstConn, i)

SpecLong == InitLong /\ [][NextLong]_vars

(* ---------- the pool API under arbitrary callers (SpecPool) ------------ *)
\* Each caller either calls acquire()/release() itself ("direct") or uses
\* `async with pool` ("scoped"), again and again.
InitSpecPool ==
  /\ error_if_not_realtime = FALSE
  /\ InitServer
  /\ InitServing(CallerPoolSize, MaxFrames)
  /\ InitCallers
  /\ cmode \in [Callers -> {"direct", "scoped"}]

\* model_instance = await pool.acquire()  (44-45)
CallerAcquire(k) ==
  /\ cmode[k] = "direct"
  /\ cpc[k] = "idle"
  /\ get_ready(pool)
  /\ pool' = Tail(pool)
  /\ cacquired' = [cacquired EXCEPT ![k] = Head(pool)]
  /\ cpc' = [cpc EXCEPT ![k] = "holding"]
  /\ UNCHANGED <<serverVars, startupVars, getters, ready, maxsize, queueFull,
                 instance, cmode, creturned>>

\* pool.release(model_instance)  (47-48)
CallerRelease(k) ==
  /\ cmode[k] = "direct"
  /\ cpc[k] = "holding"
  /\ release(cacquired[k])
  /\ creturned' = [creturned EXCEPT ![k] = cacquired[k]]
  /\ cpc' = [cpc EXCEPT ![k] = "idle"]
  /\ UNCHANGED <<serverVars, startupVars, getters, ready, instance, cmode,
                 cacquired>>

\* ASRModelPool.__aenter__ (50-52): the handle is kept in the pool object's
\* _instance attribute and returned to the caller.
AEnter(k) ==
  /\ cmode[k] = "scoped"
  /\ cpc[k] = "idle"
  /\ get_ready(pool)
  /\ pool' = Tail(pool)
  /\ instance' = Head(pool)
  /\ cacquired' = [cacquired EXCEPT ![k] = Head(pool)]
  /\ cpc' = [cpc EXCEPT ![k] = "holding"]
  /\ UNCHANGED <<serverVars, startupVars, getters, ready, maxsize, queueFull,
                 cmode, creturned>>

\* ASRModelPool.__aexit__ (54-55): releases the pool object's _instance.
AExit(k) ==
  /\ cmode[k] = "scoped"
  /\ cpc[k] = "holding"
  /\ release(instance)
  /\ creturned' = [creturned EXCEPT ![k] = instance]
  /\ cpc' = [cpc EXCEPT ![k] = "idle"]
  /\ UNCHANGED <<serverVars, startupVars, getters, ready, instance, cmode,
                 cacquired>>

NextPool ==
  \/ \E k \in Callers : CallerAcquire(k)
  \/ \E k \in Callers : CallerRelease(k)
  \/ \E k \in Callers : AEnter(k)
  \/ \E k \in Callers : AExit(k)

SpecPool == InitSpecPool /\ [][NextPool]_vars

(* ------ passes contending for the pool on the event loop (SpecLoop) ---- *)
\* Each caller stands for the finalize passes of one Session, one after the
\* other: "idle" in detect_activity (118), "waiting" in acquire() (138) with
\* its future in the queue's _getters, "woken" once that future is resolved,
\* "holding" in transcribe (140). ready is the event loop's queue of
\* scheduled steps, run in order.
InitLoop ==
  /\ error_if_not_realtime = FALSE
  /\ InitServer
  /\ InitServing(pool_size, MaxFrames)
  /\ InitCallers
  /\ cmode = [k \in Callers |-> "direct"]

\* detect_activity of the pass completes (118): its next step is scheduled.
VadDone(k) ==
  /\ cpc[k] = "idle"
  /\ k \notin RangeOf(ready)
  /\ ready' = Append(ready, k)
  /\ UNCHANGED <<serverVars, poolVars, startupVars, instance, cpc, cmode,
                 cacquired, creturned, getters>>

\* transcribe of the pass completes (140): its next step is scheduled.
TranscribeDone(k) ==
  /\ cpc[k] = "holding"
  /\ k \notin RangeOf(ready)
  /\ ready' = Append(ready, k)
  /\ UNCHANGED <<serverVars, poolVars, startupVars, instance, cpc, cmode,
                 cacquired, creturned, getters>>

\* asyncio.Queue.get as called by acquire (44-45): the item at the head
\* when the queue is not empty, else the caller joins _getters.
QueueGet(k) ==
  IF get_ready(pool)
  THEN /\ pool' = Tail(pool)
       /\ cacquired' = [cacquired EXCEPT ![k] = Head(pool)]
       /\ cpc' = [cpc EXCEPT ![k] = "holding"]
       /\ UNCHANGED getters
  ELSE /\ cpc' = [cpc EXCEPT ![k] = "waiting"]
       /\ getters' = Append(getters, k)
       /\ UNCHANGED <<pool, cacquired>>

\* The event loop runs the step at the head of ready: a pass back from
\* detect_activity or woken in acquire() calls Queue.get; a pass back from
\* transcribe releases (141-142), which resolves the future of the first
\* waiting getter and schedules it.
RunReady ==
  /\ ready # <<>>
  /\ LET k == Head(ready)
     IN IF cpc[k] = "holding"
        THEN /\ release(cacquired[k])
             /\ creturned' = [creturned EXCEPT ![k] = cacquired[k]]
             /\ IF getters # <<>>
                THEN /\ cpc' = [cpc EXCEPT ![k] = "idle",
                                           ![Head(getters)] = "woken"]
                     /\ getters' = Tail(getters)
                     /\ ready' = Append(Tail(ready), Head(getters))
                ELSE /\ cpc' = [cpc EXCEPT ![k] = "idle"]
                     /\ ready' = Tail(ready)
                     /\ UNCHANGED getters
             /\ UNCHANGED cacquired
        ELSE /\ QueueGet(k)
             /\ ready' = Tail(ready)
             /\ UNCHANGED <<maxsize, queueFull, creturned>>
  /\ UNCHANGED <<serverVars, startupVars, instance, cmode>>

NextLoop ==
  \/ \E k \in Callers : VadDone(k)
  \/ \E k \in Callers : TranscribeDone(k)
  \/ RunReady

\* The event loop runs every scheduled step, and every transcribe call
\* returns.
SpecLoop ==
  /\ InitLoop
  /\ [][NextLoop]_vars
  /\ WF_vars(RunReady)
  /\ \A k \in Callers : WF_vars(TranscribeDone(k))

(* ------------------- startup: main() (SpecStartup) --------------------- *)
\* The process is started on a machine whose GPU reports mem_info and with
\* an engine of footprint model_memory_bytes; no pool exists yet.
InitStartup ==
  /\ error_if_not_realtime = FALSE
  /\ InitServer
  /\ InitCallers
  /\ cmode = [k \in Callers |-> "direct"]
  /\ maxsize = 0
  /\ pool = <<>>
  /\ instance = NoHandle
  /\ queueFull = FALSE
  /\ startup = "main"
  /\ frame_budget = MaxFrames
  /\ mem_info \in {NvmlError} \cup (0..MaxMemory)
  /\ model_memory_bytes \in (-MaxFootprint)..MaxFootprint

\* main.py:94-96: compute_model_pool_size(), then ASRModelPool(pool_size)
\* fills a queue of that maxsize (model_pool.py:38-42); an exception of
\* compute_model_pool_size ends main.
main ==
  /\ startup = "main"
  /\ LET r == compute_model_pool_size(mem_info, model_memory_bytes)
     IN IF r.raised
        THEN /\ startup' = "failed"
             /\ UNCHANGED poolVars
        ELSE /\ startup' = "serving"
             /\ maxsize' = r.size
             /\ pool' = [i \in 1..r.size |-> i]
             /\ UNCHANGED queueFull
  /\ UNCHANGED <<serverVars, callerVars, frame_budget, mem_info,
                 model_memory_bytes>>

NextStartup == main

SpecStartup == InitStartup /\ [][NextStartup]_vars

(* ============================== claims ================================= *)
TaskIds2 == {<<c, i>> \in Conns \X TaskIds : i <= Len(tasks[c])}
HoldingTasks == {t \in TaskIds2 : tasks[t[1]][t[2]].model_instance # NoHandle}
Outstanding == Cardinality(HoldingTasks)
HeldBy(c) == {tasks[c][i].model_instance : i \in 1..Len(tasks[c])} \ {NoHandle}
PassPc(c) == IF tasks[c] = <<>> THEN "none" ELSE tasks[c][1].pc

\* C1: under any interleaving of the finalize passes' acquire and release,
\* the number of handles checked out never exceeds the pool's capacity, and
\* while all of them are checked out a pass suspended in acquire() cannot
\* be resumed.
C1_PoolCapacity ==
  /\ Outstanding <= maxsize
  /\ \A t \in TaskIds2 :
       (tasks[t[1]][t[2]].pc = "acquire" /\ Outstanding = maxsize)
         => ~ENABLED Acquire(t[1], t[2])

C1_Witness ==
  /\ Outstanding = maxsize
  /\ \E c \in Conns : PassPc(c) = "acquire"

\* C2: no handle is held by two callers at once, and every caller gives
\* back exactly the handle it acquired, for direct and for scoped callers.
C2_ExclusiveHandles ==
  /\ \A k1, k2 \in Callers :
       (k1 # k2 /\ cpc[k1] = "holding" /\ cpc[k2] = "holding")
         => cacquired[k1] # cacquired[k2]
  /\ \A k \in Callers :
       (cpc[k] = "idle" /\ creturned[k] # NoHandle)
         => creturned[k] = cacquired[k]

\* C3: when transcribe raises in a finalize pass, the handle the pass holds
\* goes back to the pool in the same step: the pool has one more idle
\* handle, the pass holds none, and idle plus checked-out handles make up
\* the capacity again.
C3_ReleaseOnAsrFailure ==
  [][\A c \in Conns :
       (outcome[c] = "running" /\ outcome'[c] = "asr_error")
         => /\ HeldBy(c) # {}
            /\ HeldBy(c) \subseteq RangeOf(pool')
            /\ HeldBy(c)' = {}
            /\ Len(pool') = Len(pool) + 1
            /\ Len(pool') + Outstanding' = maxsize]_vars

C3_Witness ==
  \E c \in Conns : outcome[c] = "asr_error" /\ Len(pool) = maxsize

\* A frame is handled whose bytes take buffer over the chunk threshold.
Trigger(c) ==
  /\ received'[c] # received[c]
  /\ Len(buffer[c]) + (nextByte'[c] - nextByte[c]) > chunk_length_in_bytes
NewBytes(c) == [i \in 1..(nextByte'[c] - nextByte[c]) |-> nextByte[c] + i - 1]

\* C4: a Session never has more than one finalize pass in flight, and a
\* threshold trigger that fires while processing_flag is set starts none.
C4_SinglePass ==
  /\ [](\A c \in Conns : Len(tasks[c]) <= 1)
  /\ [][\A c \in Conns :
          (Trigger(c) /\ processing_flag[c])
            => Len(tasks'[c]) <= Len(tasks[c])]_vars

C4_Witness ==
  \E c \in Conns : lastCheck[c] = "dropped" /\ Len(tasks[c]) = 1

\* C5: under the drop policy a threshold trigger that fires while a pass is
\* in flight leaves scratch_buffer as it is, empties buffer and keeps the
\* connection in the receive loop; scratch_buffer does not change between
\* the start and the end of a pass.
C5_DropPolicy ==
  [][\A c \in Conns :
       ~error_if_not_realtime
         => /\ (Trigger(c) /\ tasks[c] # <<>>)
                 => /\ scratch_buffer'[c] = scratch_buffer[c]
                    /\ buffer'[c] = <<>>
                    /\ tasks'[c] = tasks[c]
                    /\ running'
                    /\ connState'[c] = "active"
                    /\ c \in connected_clients'
            /\ (tasks[c] # <<>> /\ tasks'[c] # <<>>)
                 => scratch_buffer'[c] = scratch_buffer[c]]_vars

C5_Witness ==
  \E c \in Conns :
    /\ ~error_if_not_realtime
    /\ lastCheck[c] = "dropped"
    /\ tasks[c] # <<>>
    /\ scratch_buffer[c] # <<>>
    /\ buffer[c] = <<>>

\* C6: after detect_activity or transcribe raised in a pass, the pass is
\* over and processing_flag is false again.
C6_FlagClearedAfterFailure ==
  \A c \in Conns :
    outcome[c] \in {"vad_error", "asr_error"} => ~processing_flag[c]

\* C7: no byte is in buffer and scratch_buffer at once, and the trigger
\* that starts a pass puts the whole buffer (with the frame just received)
\* at the end of scratch_buffer and leaves buffer empty.
C7_BuffersDisjoint ==
  /\ [](\A c \in Conns :
          RangeOf(buffer[c]) \cap RangeOf(scratch_buffer[c]) = {})
  /\ [][\A c \in Conns :
          (Trigger(c) /\ ~processing_flag[c])
            => /\ scratch_buffer'[c] =
                    scratch_buffer[c] \o buffer[c] \o NewBytes(c)
               /\ buffer'[c] = <<>>]_vars

C7_Witness ==
  \E c \in Conns :
    /\ tasks[c] # <<>>
    /\ scratch_buffer[c] # <<>>
    /\ buffer[c] # <<>>

\* A pass is resumed by detect_activity returning (not raising).
VadReturned(c) ==
  /\ PassPc(c) = "vad"
  /\ PassPc(c)' # "vad"
  /\ outcome'[c] # "vad_error"

\* C8: when VAD returns no segment, the pass ends with scratch_buffer
\* cleared, the pool untouched, nothing sent, the segment counter unchanged
\* and processing_flag false.
C8_SilenceDiscard ==
  [][\A c \in Conns :
       (VadReturned(c) /\ last_vad'[c] = <<>>)
         => /\ outcome'[c] = "silence"
            /\ tasks'[c] = <<>>
            /\ scratch_buffer'[c] = <<>>
            /\ poolVars' = poolVars
            /\ sent' = sent
            /\ file_counter' = file_counter
            /\ ~processing_flag'[c]]_vars

C8_Witness ==
  \E c \in Conns :
    outcome[c] = "silence" /\ scratch_buffer[c] = <<>> /\ tasks[c] = <<>>

\* cutoff = len(scratch_buffer) / (sampling_rate * sample_width)
\*          - chunk_offset_seconds, and end < cutoff, in bytes
BytesPerSecond == sampling_rate * samples_width
LastEnd(c) == last_vad[c][Len(last_vad[c])]
LastEndBeforeCutoff(c) ==
  LastEnd(c) * BytesPerSecond
    < Len(scratch_buffer[c]) - chunk_offset_seconds * BytesPerSecond

\* C9: a pass goes on to acquire and transcribe only when the last VAD
\* segment ends strictly before the cutoff; otherwise it ends with the pool
\* untouched, nothing sent, scratch_buffer intact and processing_flag false,
\* and the next trigger appends its chunk to the retained scratch_buffer
\* and starts a pass over it.
C9_CutoffRebuffer ==
  /\ [](\A c \in Conns :
          PassPc(c) \in {"acquire", "transcribe", "send"}
            => (last_vad[c] # <<>> /\ LastEndBeforeCutoff(c)))
  /\ [][\A c \in Conns :
          (VadReturned(c) /\ last_vad'[c] # <<>> /\ ~LastEndBeforeCutoff(c)')
            => /\ outcome'[c] = "rebuffer"
               /\ tasks'[c] = <<>>
               /\ scratch_buffer'[c] = scratch_buffer[c]
               /\ poolVars' = poolVars
               /\ sent' = sent
               /\ ~processing_flag'[c]]_vars
  /\ [][\A c \in Conns :
          (outcome[c] = "rebuffer" /\ Trigger(c))
            => /\ scratch_buffer'[c] =
                    scratch_buffer[c] \o buffer[c] \o NewBytes(c)
               /\ PassPc(c)' = "vad"]_vars

C9_Witness ==
  \E c \in Conns :
    /\ PassPc(c) = "vad"
    /\ file_counter[c] = 0
    /\ Len(scratch_buffer[c]) > chunk_length_in_bytes + MaxFrameLen

\* The key a query carries: the first non-blank value of the key parameter.
KeyPositions(q) == {i \in 1..Len(q) : q[i][1] = KeyParam /\ q[i][2] # ""}
FirstKey(q) ==
  q[CHOOSE i \in KeyPositions(q) : \A j \in KeyPositions(q) : i <= j][2]
Rejected(c, reason) ==
  /\ connState[c] = "closed"
  /\ closeCode[c] = 4001
  /\ closeReason[c] = reason
  /\ c \notin connected_clients
  /\ received[c] = 0

\* C10: a connection without a key is closed with 4001 "Missing API Key",
\* one with a key outside the authorized set with 4001 "Invalid API Key",
\* both without a registered Session or a frame read; a connection with an
\* authorized key registers its one Session and receives frames.
C10_Auth ==
  /\ [](\A c \in Conns : closeCode[c] = 4001 =>
          /\ c \notin connected_clients
          /\ received[c] = 0
          /\ connState[c] = "closed")
  /\ [][\A c \in Conns :
          (connState[c] = "new" /\ connState'[c] # "new")
            => IF KeyPositions(path'[c]) = {}
               THEN Rejected(c, "Missing API Key")'
               ELSE IF FirstKey(path'[c]) # TARA_API_KEY
               THEN Rejected(c, "Invalid API Key")'
               ELSE /\ connState'[c] = "active"
                    /\ c \notin connected_clients
                    /\ connected_clients' = connected_clients \cup {c}
                    /\ closeCode'[c] = 0]_vars

C10_Witness ==
  \E c1, c2 \in Conns :
    /\ closeCode[c1] = 4001 /\ closeReason[c1] = "Invalid API Key"
    /\ connState[c2] = "active" /\ c2 \in connected_clients
    /\ received[c2] > 0

\* C11: a text frame that is not JSON, is JSON but not an object, or is a
\* "config" object without "data" is dropped: after it is handled the
\* connection is still open and its Session still registered.
C11_MalformedDropped ==
  [][\A c \in Conns :
       (received'[c] # received[c] /\ lastFrame'[c] \in MalformedKinds)
         => /\ connState'[c] = "active"
            /\ c \in connected_clients']_vars

\* C12: the registry holds exactly the Sessions of the active connections,
\* and the step that ends an active connection (disconnect, error in the
\* receive loop, exit under the fail-fast policy) removes its Session, with
\* or without a pass in flight.
C12_RegistryMatchesActive ==
  /\ [](connected_clients = {c \in Conns : connState[c] = "active"})
  /\ [][\A c \in Conns :
          (connState[c] = "active" /\ connState'[c] # "active")
            => /\ connState'[c] = "closed"
               /\ connected_clients' = connected_clients \ {c}
               /\ tasks'[c] = tasks[c]]_vars

C12_Witness ==
  \E c1, c2 \in Conns :
    /\ connState[c1] = "closed" /\ received[c1] > 0 /\ tasks[c1] # <<>>
    /\ connState[c2] = "active"
    /\ connected_clients = {c2}

\* C13: a pass whose connection has closed goes on, and none of its steps
\* delivers a frame to any connection or changes the registry; when it is
\* over its Session is not registered and every handle is idle or held by
\* another pass.
C13_DetachedPass ==
  /\ [](\A c \in Conns :
          (running /\ connState[c] = "closed")
            => /\ PassPc(c) = "vad"
                    => ENABLED (\E res \in VadResults : VadReturn(c, 1, res))
               /\ PassPc(c) = "transcribe"
                    => ENABLED (\E text \in Texts :
                                  TranscribeReturn(c, 1, text))
               /\ PassPc(c) = "send" => ENABLED SendRaise(c, 1))
  /\ [][\A c \in Conns :
          (connState[c] = "closed" /\ tasks'[c] # tasks[c])
            => /\ sent' = sent
               /\ connected_clients' = connected_clients
               /\ c \notin connected_clients'
               /\ tasks'[c] = <<>>
                    => /\ HeldBy(c)' = {}
                       /\ Len(pool') + Outstanding' = maxsize]_vars

C13_Witness ==
  \E c \in Conns :
    /\ connState[c] = "closed"
    /\ outcome[c] = "send_error"
    /\ tasks[c] = <<>>
    /\ sent[c] = <<>>
    /\ Len(pool) = maxsize

\* C14: under the fail-fast policy a threshold trigger that fires while
\* processing_flag is set ends the process, with the frame kept in buffer,
\* scratch_buffer untouched and no pass started; without the policy the
\* process is never ended.
C14_FailFast ==
  /\ [][\A c \in Conns :
          (Trigger(c) /\ processing_flag[c] /\ error_if_not_realtime)
            => /\ ~running'
               /\ buffer'[c] = buffer[c] \o NewBytes(c)
               /\ scratch_buffer' = scratch_buffer
               /\ tasks' = tasks]_vars
  /\ [](~error_if_not_realtime => running)

C14_Witness ==
  \E c \in Conns :
    /\ ~running
    /\ lastCheck[c] = "fatal"
    /\ Len(buffer[c]) > chunk_length_in_bytes
    /\ scratch_buffer[c] # <<>>

\* C15: with a footprint F > 0 and free memory M >= 0 (0 when the memory
\* query fails) startup does not fail and the pool is built with
\* max(1, floor(0.8 * M / F)) handles: the size n is at least 1, and when it
\* is more than 1 it is the n with n * F <= 0.8 * M < (n + 1) * F; 10000 and
\* 2000 give 4, 1000 and 10000 give 1.
C15_PoolSize ==
  LET M == IF mem_info = NvmlError THEN 0 ELSE mem_info
      F == model_memory_bytes
  IN /\ (F > 0 /\ startup # "main")
          => /\ startup = "serving"
             /\ Len(pool) = maxsize
             /\ maxsize >= 1
             /\ 8 * M < 10 * F * (maxsize + 1)
             /\ maxsize > 1 => 10 * F * maxsize <= 8 * M
             /\ mem_info = NvmlError => maxsize = 1
     /\ compute_model_pool_size(10000, 2000) = [raised |-> FALSE, size |-> 4]
     /\ compute_model_pool_size(1000, 10000) = [raised |-> FALSE, size |-> 1]

C15_Witness ==
  /\ startup = "serving"
  /\ model_memory_bytes > 1
  /\ maxsize > 1
  /\ 8 * mem_info > 10 * model_memory_bytes * maxsize

\* C16: with a footprint that is 0 or negative, startup never gets a pool
\* size and a pool: it fails.
C16_NonPositiveFootprintFails ==
  (model_memory_bytes <= 0 /\ startup # "main")
    => /\ startup = "failed"
       /\ pool = <<>>

\* C17: a pass suspended in acquire() eventually holds a handle, given that
\* every transcribe call returns and the event loop runs what is scheduled.
C17_NoStarvation ==
  \A k \in Callers : (cpc[k] = "waiting") ~> (cpc[k] = "holding")

\* The bytes a transcript frame was made from.
AudioOf(c, i) == RangeOf(sent[c][i].audio)

\* C18: the transcript frames of a Session are sent in the order in which
\* their audio was moved to scratch_buffer: every byte behind an earlier
\* frame was ingested before every byte behind a later one.
C18_TranscriptOrder ==
  \A c \in Conns : \A i, j \in 1..Len(sent[c]) :
    i < j => \A a \in AudioOf(c, i), b \in AudioOf(c, j) : a < b

C18_Witness ==
  \E c \in Conns :
    /\ Len(sent[c]) > 1
    /\ AudioOf(c, 1) # {}
    /\ AudioOf(c, 2) # {}

\* The audio one trigger can move: a buffer at the threshold and one frame.
MaxChunk == chunk_length_in_bytes + MaxFrameLen

\* C19: under the drop policy len(buffer) + len(scratch_buffer) stays within
\* a bound given by the threshold and the frame size: one chunk in each.
C19_BufferedAudioBounded ==
  \A c \in Conns :
    ~error_if_not_realtime
      => Len(buffer[c]) + Len(scratch_buffer[c]) <= 2 * MaxChunk

\* C19, amended: under the drop policy buffer never holds more than the
\* threshold between two frames; scratch_buffer grows only in a trigger
\* that starts a pass, by one chunk at most, and such a trigger finds it
\* non-empty only after a pass that ended in re-buffering.
C19_LiveBufferBounded ==
  /\ [](\A c \in Conns :
          ~error_if_not_realtime
            => Len(buffer[c]) <= chunk_length_in_bytes)
  /\ [][\A c \in Conns :
          Len(scratch_buffer'[c]) > Len(scratch_buffer[c])
            => /\ Trigger(c)
               /\ ~processing_flag[c]
               /\ Len(scratch_buffer'[c]) <= Len(scratch_buffer[c]) + MaxChunk
               /\ scratch_buffer[c] # <<>> => outcome[c] = "rebuffer"]_vars

C19_Witness ==
  \E c \in Conns :
    /\ ~error_if_not_realtime
    /\ Len(scratch_buffer[c]) > 2 * MaxChunk - chunk_length_in_bytes
    /\ buffer[c] # <<>>
    /\ Len(buffer[c]) <= chunk_length_in_bytes

FramesLeft == TotalReceived < frame_budget

TranscribeBranchEnds(c) ==
  /\ PassPc(c) \in {"transcribe", "send"}
  /\ tasks'[c] = <<>>
  /\ outcome'[c] # "asr_error"

\* The step ends the pass as 187-190 do; a frame went out iff the pass was
\* in send, and it carries the text the pass held.
EndsTranscribed(c) ==
  /\ outcome'[c] = "transcribed"
  /\ scratch_buffer'[c] = <<>>
  /\ file_counter'[c] = file_counter[c] + 1
  /\ ~processing_flag'[c]
  /\ IF PassPc(c) = "send"
     THEN /\ Len(sent'[c]) = Len(sent[c]) + 1
          /\ sent'[c][Len(sent'[c])].text = tasks[c][1].text
     ELSE sent'[c] = sent[c]

\* A pass goes on to send only with a non-empty text, and silence and
\* re-buffering leave the segment counter alone.
SendOnlyText(c) ==
  /\ (PassPc(c) = "transcribe" /\ PassPc(c)' = "send")
       => tasks'[c][1].text # ""
  /\ (outcome[c] = "running" /\ outcome'[c] \in {"silence", "rebuffer"})
       => file_counter'[c] = file_counter[c]

\* C22: once transcribe has returned, the pass sends a frame iff the text
\* is non-empty and in both cases ends with scratch_buffer cleared, the
\* segment counter one higher and processing_flag false; silence and
\* re-buffering leave the counter unchanged.
C22_TranscribeBranch ==
  [][\A c \in Conns :
       /\ TranscribeBranchEnds(c) => EndsTranscribed(c)
       /\ SendOnlyText(c)]_vars

\* The handles of the pool that are not idle in its queue.
CheckedOut == {h \in 1..maxsize : h \notin RangeOf(pool)}
Holding == {k \in Callers : cpc[k] = "holding"}
Conserved == Len(pool) + Cardinality(CheckedOut) = maxsize

\* Caller k's release() returns in this step, of a handle that was acquired
\* from the pool and not yet returned.
ReleasesCheckedOut(k) ==
  /\ cpc[k] = "holding"
  /\ cpc'[k] = "idle"
  /\ creturned'[k] \in CheckedOut

\* C23: idle plus checked-out handles equal the capacity fixed at
\* construction, and release does not raise, as long as every released
\* handle was checked out: in every state of a run whose callers all
\* release the handle they acquired, and across every acquire and every
\* release of a checked-out handle wherever the count was right before.
C23_Conservation ==
  /\ []((\A k \in Callers : cmode[k] = "direct")
          => /\ Conserved
             /\ Len(pool) + Cardinality(Holding) = maxsize
             /\ maxsize = CallerPoolSize
             /\ ~queueFull)
  /\ [][\A k \in Callers :
         /\ (Conserved /\ ReleasesCheckedOut(k))
              => /\ Conserved'
                 /\ pool' = Append(pool, creturned'[k])
                 /\ queueFull' = queueFull
         /\ (Conserved /\ cpc[k] = "idle" /\ cpc'[k] = "holding")
              => /\ Conserved'
                 /\ cacquired'[k] \in CheckedOut'
         /\ maxsize' = maxsize]_vars

C23_Witness ==
  /\ \A k \in Callers : cmode[k] = "direct"
  /\ pool = <<>>
  /\ Cardinality(Holding) = maxsize
  /\ \E k \in Holding : creturned[k] # NoHandle
  /\ \E k \in Callers \ Holding : creturned[k] # NoHandle

\* A step of c's pass, not of its receive loop.
PassStep(c) ==
  /\ tasks[c] # <<>>
  /\ tasks'[c] # tasks[c]
  /\ received'[c] = received[c]

\* C24: no step of a finalize pass changes buffer, so what was appended to
\* it while the pass was in flight is still there when the pass ends,
\* whatever the outcome.
C24_PassKeepsLiveBuffer ==
  [][\A c \in Conns : PassStep(c) => buffer'[c] = buffer[c]]_vars

====
